---------------------------- MODULE Spec2Model ----------------------------
(***************************************************************************)
(* Model of the trade services of the repository:                          *)
(*   - the trade opportunity calculator (calculator/calculator.py): the    *)
(*     Redis order cache it reads, fetch_best_orders, calculate_trades and *)
(*     the HTTP handler Handler.do_GET;                                    *)
(*   - the price loader (price_loader/price_loader.py): fetch_best_orders  *)
(*     and update_orders with its pool of region workers;                  *)
(*   - the batch computation that fills the opportunity store, and the UI  *)
(*     (ui/app.py) that loads the stored opportunities and filters them.   *)
(*                                                                         *)
(* Numbers: prices, wallet, cargo and unit volumes are integers; the       *)
(* code's math.floor(a / b) is a \div b for b > 0.                         *)
(***************************************************************************)
EXTENDS Integers, Sequences, FiniteSets, TLC

VARIABLES
    redis_client,   \* the order cache: key <<region_id, item_id>> -> stored value
    ITEMS,          \* items.json as loaded at start-up (volume may be null)
    conn,           \* the HTTP connection being served: idle, or request + outcome
    opportunities,  \* the opportunity store: item id -> stored value
    batch,          \* the batch computation: idle, or running at item k
    ui,             \* the UI script: its cached load and the table it shows
    loader,         \* update_orders' own thread: where it is
    futures,        \* the region workers of the executor: region id -> worker
    writes          \* history: the cache writes attempted in this run

vars == <<redis_client, ITEMS, conn, opportunities, batch, ui, loader, futures, writes>>

\* The state of the batch computation and of the UI.
storeVars == <<opportunities, batch, ui>>

\* The state of one run of the price loader.
loaderVars == <<loader, futures, writes>>

-----------------------------------------------------------------------------
(* Defaults of the query parameters.                                       *)

DEFAULT_WALLET == 50000000

DEFAULT_CARGO == 230

DEFAULT_PROFIT == 1000000

DEFAULT_LIMIT == 10

-----------------------------------------------------------------------------
(* Static data: trade_hubs.json, jump_graph.json and items.json.           *)

\* Hubs in file order; Y and W share a region.
TRADE_HUBS ==
    << [name |-> "X", region_id |-> 1],
       [name |-> "Y", region_id |-> 2],
       [name |-> "W", region_id |-> 2] >>

\* The entries of jump_graph.json: <<from, to>> -> jumps.  X -> W is a
\* zero-jump entry, Y -> W joins two hubs of one region, and W -> X and
\* W -> Y have no entry.
JUMP_GRAPH ==
    (<<"X", "Y">> :> 3) @@ (<<"X", "W">> :> 0) @@
    (<<"Y", "X">> :> 3) @@ (<<"Y", "W">> :> 1)

\* JUMP_GRAPH.get(name_a, {}).get(name_b)
JumpsGet(name_a, name_b) ==
    IF <<name_a, name_b>> \in DOMAIN JUMP_GRAPH
    THEN JUMP_GRAPH[<<name_a, name_b>>]
    ELSE -1

HasJumps(name_a, name_b) == <<name_a, name_b>> \in DOMAIN JUMP_GRAPH

\* The volumes the second item may have in items.json: null, 0 or 5.
SecondVolumes == {-1, 0, 5}

\* items.json, in file order.  A volume of -1 stands for null / no key.
ItemTable(v) ==
    << [id |-> 34, name |-> "Z", volume |-> 10],
       [id |-> 35, name |-> "Q", volume |-> v] >>

ItemIds == {34, 35}

Regions == {TRADE_HUBS[i].region_id : i \in 1..Len(TRADE_HUBS)}

Keys == Regions \X ItemIds

-----------------------------------------------------------------------------
(* Stored values of the order cache.                                       *)

\* Orders as stored; volume_remain -1 stands for an order without that key.
OrderA == [price |-> 100, volume_remain |-> 50]

OrderB == [price |-> 150, volume_remain |-> 30]

OrderC == [price |-> 100, volume_remain |-> -1]

\* The (sell, buy) order lists a cached value may hold.
Books ==
    { << <<OrderA>>, <<OrderB>> >>,
      << <<OrderB>>, <<OrderA>> >>,
      << <<OrderC>>, <<>> >> }

\* What redis_client.get may return for a key:
\*   missing  no such key (None)          empty   the empty string
\*   garbage  text json.loads rejects     array   valid JSON that is no object
\*   object   {"sell": [...], "buy": [...]}
Stored(kind, sell, buy) == [kind |-> kind, sell |-> sell, buy |-> buy]

Missing == Stored("missing", <<>>, <<>>)

ForeignKinds == {"empty", "garbage", "array"}

Objects == { Stored("object", bk[1], bk[2]) : bk \in Books }

Payloads == {Missing} \cup {Stored(k, <<>>, <<>>) : k \in ForeignKinds} \cup Objects


-----------------------------------------------------------------------------
(* fetch_best_orders                                                       *)

\* The outcome of fetch_best_orders: the exception it raised ("none" when it
\* returned) and the pair (sell, buy), each <<>> for None or <<order>>.
Fetched(exc, sell, buy) == [exc |-> exc, sell |-> sell, buy |-> buy]

\* sell_orders[0] if sell_orders else None
First(orders) == IF orders = <<>> THEN <<>> ELSE <<orders[1]>>

fetch_best_orders(region_id, item_id) ==
    LET data == redis_client[<<region_id, item_id>>] IN
    CASE data.kind \in {"missing", "empty"} -> Fetched("none", <<>>, <<>>)   \* not data
      [] data.kind = "garbage" -> Fetched("none", <<>>, <<>>)   \* JSONDecodeError caught
      [] data.kind = "array" -> Fetched("AttributeError", <<>>, <<>>)   \* payload.get
      [] OTHER -> Fetched("none", First(data.sell), First(data.buy))

-----------------------------------------------------------------------------
(* calculate_trades                                                        *)

\* itertools.permutations(TRADE_HUBS, 2): index pairs in generation order.
HubPairs ==
    LET n == Len(TRADE_HUBS) IN
    [k \in 1..(n * (n - 1)) |->
        LET i == ((k - 1) \div (n - 1)) + 1
            r == ((k - 1) % (n - 1)) + 1
        IN <<i, IF r < i THEN r ELSE r + 1>>]

\* The (hub pair, item) units in loop order: pair-major, item-minor.
Units ==
    [u \in 1..(Len(HubPairs) * Len(ITEMS)) |->
        [pair |-> HubPairs[((u - 1) \div Len(ITEMS)) + 1],
         item |-> ((u - 1) % Len(ITEMS)) + 1]]

\* item.get("volume") or 0
VolumePerUnit(item) == IF item.volume > 0 THEN item.volume ELSE 0

\* order.get("volume_remain", 0)
VolumeRemain(order) == IF order.volume_remain = -1 THEN 0 ELSE order.volume_remain

Min2(a, b) == IF a <= b THEN a ELSE b

\* math.floor(cargo / volume_per_unit) if volume_per_unit else 0
CargoTerm(cargo, volume_per_unit) ==
    IF volume_per_unit # 0 THEN cargo \div volume_per_unit ELSE 0

\* math.floor(wallet / buy_price)
WalletTerm(wallet, buy_price) == wallet \div buy_price

\* Mutant of Available: the buy side's remaining volume is left out.
Available_NoBuyVolume(sell, buy, wallet, cargo, volume_per_unit) ==
    Min2(VolumeRemain(sell),
         Min2(WalletTerm(wallet, sell.price), CargoTerm(cargo, volume_per_unit)))

\* available = min(sell volume, buy volume, wallet term, cargo term)
Available(sell, buy, wallet, cargo, volume_per_unit) ==
    Min2(Min2(VolumeRemain(sell), VolumeRemain(buy)),
         Min2(WalletTerm(wallet, sell.price), CargoTerm(cargo, volume_per_unit)))

\* profit / jumps if jumps else profit, kept as the fraction num / den.
ProfitPerJump(profit, jumps) ==
    IF jumps # 0 THEN [num |-> profit, den |-> jumps] ELSE [num |-> profit, den |-> 1]

\* The result dict appended for one unit.
Result(item, name_a, name_b, sell, buy, available, jumps) ==
    LET buy_price == sell.price
        sell_price == buy.price
        total_cost == buy_price * available
        revenue == sell_price * available
        profit == revenue - total_cost
    IN [item |-> item.name,
        buy_region |-> name_a,
        sell_region |-> name_b,
        quantity |-> available,
        total_cost |-> total_cost,
        total_volume |-> VolumePerUnit(item) * available,
        expected_revenue |-> revenue,
        profit |-> profit,
        jumps |-> jumps,
        profit_per_jump |-> ProfitPerJump(profit, jumps)]

\* if region_a == region_b: continue
SameRegion(hub_a, hub_b) == hub_a.region_id = hub_b.region_id

\* Mutant of NoRoute: "if not jumps" also drops a zero-jump entry.
NoRoute_ZeroIsMissing(hub_a, hub_b) ==
    ~HasJumps(hub_a.name, hub_b.name) \/ JumpsGet(hub_a.name, hub_b.name) = 0

\* jumps = JUMP_GRAPH.get(name_a, {}).get(name_b); if jumps is None: continue
NoRoute(hub_a, hub_b) == ~HasJumps(hub_a.name, hub_b.name)

\* if sell_price <= buy_price: continue
NoMargin(sell, buy) == buy.price <= sell.price

\* Mutant of Infeasible: a quantity of zero is let through.
Infeasible_ZeroPasses(available) == available < 0

\* if available <= 0: continue
Infeasible(available) == available <= 0

\* Mutant of BelowThreshold: the comparison is inverted.
BelowThreshold_Inverted(profit, min_profit) == profit > min_profit

\* if profit < min_profit: continue
BelowThreshold(profit, min_profit) == profit < min_profit

\* One pass of the loop body for unit u: "skip" (a continue), "raise" (an
\* exception leaves calculate_trades) or "found" with the result appended.
Body(u, wallet, cargo, min_profit) ==
    LET hub_a == TRADE_HUBS[u.pair[1]]
        hub_b == TRADE_HUBS[u.pair[2]]
        item == ITEMS[u.item]
        skip == [kind |-> "skip", exc |-> "none", result |-> <<>>]
    IN  IF SameRegion(hub_a, hub_b) \/ NoRoute(hub_a, hub_b) THEN skip
        ELSE
        LET fa == fetch_best_orders(hub_a.region_id, item.id) IN
        IF fa.exc # "none" THEN [kind |-> "raise", exc |-> fa.exc, result |-> <<>>]
        ELSE
        LET fb == fetch_best_orders(hub_b.region_id, item.id) IN
        IF fb.exc # "none" THEN [kind |-> "raise", exc |-> fb.exc, result |-> <<>>]
        ELSE IF fa.sell = <<>> \/ fb.buy = <<>> THEN skip
        ELSE
        LET sell == fa.sell[1]
            buy == fb.buy[1]
        IN  IF NoMargin(sell, buy) THEN skip
            ELSE
            LET available == Available(sell, buy, wallet, cargo, VolumePerUnit(item))
                r == Result(item, hub_a.name, hub_b.name, sell, buy, available,
                            JumpsGet(hub_a.name, hub_b.name))
            IN  IF Infeasible(available) THEN skip
                ELSE IF BelowThreshold(r.profit, min_profit) THEN skip
                ELSE [kind |-> "found", exc |-> "none", result |-> <<r>>]

\* The two nested for loops over units from unit k on, results collected so far.
RECURSIVE Loop(_, _, _, _, _, _)
Loop(units, k, results, wallet, cargo, min_profit) ==
    IF k > Len(units) THEN [exc |-> "none", results |-> results]
    ELSE LET b == Body(units[k], wallet, cargo, min_profit) IN
         IF b.kind = "raise" THEN [exc |-> b.exc, results |-> <<>>]
         ELSE Loop(units, k + 1, results \o b.result, wallet, cargo, min_profit)

\* Mutant of InsertDesc: an equal profit goes in front (the sort is not stable).
RECURSIVE InsertDesc_Unstable(_, _)
InsertDesc_Unstable(s, r) ==
    IF s = <<>> THEN <<r>>
    ELSE IF Head(s).profit > r.profit
         THEN <<Head(s)>> \o InsertDesc_Unstable(Tail(s), r)
    ELSE <<r>> \o s

\* Where a stable descending sort puts r among the already sorted s: after
\* every element whose profit is >= r's.
RECURSIVE InsertDesc(_, _)
InsertDesc(s, r) ==
    IF s = <<>> THEN <<r>>
    ELSE IF Head(s).profit >= r.profit THEN <<Head(s)>> \o InsertDesc(Tail(s), r)
    ELSE <<r>> \o s

\* results.sort(key=lambda r: r["profit"], reverse=True)
RECURSIVE SortByProfit(_)
SortByProfit(s) ==
    IF s = <<>> THEN <<>>
    ELSE InsertDesc(SortByProfit(SubSeq(s, 1, Len(s) - 1)), s[Len(s)])

\* Mutant of Slice: one entry too many is kept.
Slice_OffByOne(s, limit) ==
    IF limit >= 0 THEN SubSeq(s, 1, Min2(limit + 1, Len(s)))
    ELSE SubSeq(s, 1, IF Len(s) + limit > 0 THEN Len(s) + limit ELSE 0)

\* results[:limit], Python's slice: a negative limit counts from the end.
Slice(s, limit) ==
    IF limit >= 0 THEN SubSeq(s, 1, Min2(limit, Len(s)))
    ELSE SubSeq(s, 1, IF Len(s) + limit > 0 THEN Len(s) + limit ELSE 0)

\* The candidates calculate_trades collects before it sorts and truncates.
Candidates(wallet, cargo, min_profit) ==
    Loop(Units, 1, <<>>, wallet, cargo, min_profit)

calculate_trades(wallet, cargo, min_profit, limit) ==
    LET c == Candidates(wallet, cargo, min_profit) IN
    IF c.exc # "none" THEN [exc |-> c.exc, results |-> <<>>]
    ELSE [exc |-> "none", results |-> Slice(SortByProfit(c.results), limit)]

-----------------------------------------------------------------------------
(* Handler.do_GET                                                          *)

\* A query parameter as parse_qs gives it: not given, text that is no
\* number, or the decimal text of an integer.
RawAbsent == [kind |-> "absent", val |-> 0]

RawText == [kind |-> "text", val |-> 0]

RawInt(v) == [kind |-> "int", val |-> v]

\* get_int: int(params.get(name, [default])[0]), the default on ValueError.
get_int(raw, default) == IF raw.kind = "int" THEN raw.val ELSE default

\* Mutant of CargoRaises: cargo text falls back to the default like get_int.
CargoRaises_Defaulted(raw) == FALSE

\* float(params.get("cargo", [DEFAULT_CARGO])[0]): raises ValueError on text.
CargoRaises(raw) == raw.kind = "text"

CargoValue(raw) == IF raw.kind = "int" THEN raw.val ELSE DEFAULT_CARGO

Args(wallet, cargo, min_profit, limit) ==
    [wallet |-> wallet, cargo |-> cargo, min_profit |-> min_profit, limit |-> limit]

NoArgs == Args(0, 0, 0, 0)

Idle ==
    [state |-> "idle", raw |-> Args(RawAbsent, RawAbsent, RawAbsent, RawAbsent),
     args |-> NoArgs, status |-> "none", exc |-> "none", body |-> <<>>]

\* What the connection holds once do_GET has run: status "200" with the JSON
\* body, or "exception" when an exception left do_GET (no response is sent).
Served(raw) ==
    LET args == Args(get_int(raw.wallet, DEFAULT_WALLET), CargoValue(raw.cargo),
                     get_int(raw.min_profit, DEFAULT_PROFIT),
                     get_int(raw.limit, DEFAULT_LIMIT))
    IN  IF CargoRaises(raw.cargo)
        THEN [state |-> "done", raw |-> raw, args |-> NoArgs,
              status |-> "exception", exc |-> "ValueError", body |-> <<>>]
        ELSE LET data == calculate_trades(args.wallet, args.cargo,
                                          args.min_profit, args.limit)
             IN  IF data.exc # "none"
                 THEN [state |-> "done", raw |-> raw, args |-> args,
                       status |-> "exception", exc |-> data.exc, body |-> <<>>]
                 ELSE [state |-> "done", raw |-> raw, args |-> args,
                       status |-> "200", exc |-> "none", body |-> data.results]

-----------------------------------------------------------------------------
(* Requests                                                                *)

\* The limits tried are -MaxNegLimit .. MaxLimit.
MaxLimit == 2

MaxNegLimit == 1

Wallets == {1000, 10000}

Cargos == {100, 1000}

MinProfits == {0, 1000}

Limits == (0 - MaxNegLimit)..MaxLimit

\* Requests whose four parameters are all integers.
NumericRequests ==
    { Args(RawInt(w), RawInt(c), RawInt(m), RawInt(l)) :
        w \in Wallets, c \in Cargos, m \in MinProfits, l \in Limits }

\* The values a parameter may arrive with: not given, text, an integer.
RawWallets == {RawAbsent, RawText, RawInt(10000)}

RawCargos == {RawAbsent, RawText, RawInt(1000)}

RawMinProfits == {RawAbsent, RawText, RawInt(0)}

RawLimits == {RawAbsent, RawText} \cup {RawInt(l) : l \in Limits}

\* Requests with any mix of missing, non-numeric and integer parameters.
AnyRequests ==
    { Args(w, c, m, l) :
        w \in RawWallets, c \in RawCargos, m \in RawMinProfits, l \in RawLimits }

\* The cache keys of the first item.
FirstItemKeys == {key \in Keys : key[2] = 34}

-----------------------------------------------------------------------------
(* The opportunity store and the batch computation that fills it.  The     *)
(* batch computation follows the on-demand steps with the quantity bound   *)
(* only by the two order books, and hands each item's list to the store    *)
(* under that item's key as soon as the item is done.                      *)

\* What client.get gives for the key opportunities:{item_id}: missing (no
\* such key), empty (the empty string), garbage (text json.loads rejects)
\* or list (a JSON list of opportunities).
StoredOpps(kind, rows) == [kind |-> kind, rows |-> rows]

NoOpps == StoredOpps("missing", <<>>)

\* One stored opportunity, under the keys the UI reads.  full_price is the
\* total cost and full_volume the total volume; -1 stands for a key that
\* the record does not have.
Opportunity(item, hub_a, hub_b, sell, buy, amount, jumps) ==
    LET profit == (buy.price - sell.price) * amount IN
    [item_id |-> item.id,
     from_location |-> hub_a.name,
     to_location |-> hub_b.name,
     amount |-> amount,
     full_price |-> sell.price * amount,
     full_volume |-> VolumePerUnit(item) * amount,
     profit |-> profit,
     profit_per_jump |-> ProfitPerJump(profit, jumps)]

\* The batch quantity: the two remaining volumes, no wallet or cargo term.
BatchQuantity(sell, buy) == Min2(VolumeRemain(sell), VolumeRemain(buy))

\* The opportunity of one hub pair for one item: <<>> when the pair is
\* skipped, <<opportunity>> otherwise.
BatchBody(pair, item) ==
    LET hub_a == TRADE_HUBS[pair[1]]
        hub_b == TRADE_HUBS[pair[2]]
    IN  IF SameRegion(hub_a, hub_b) \/ NoRoute(hub_a, hub_b) THEN <<>>
        ELSE
        LET fa == fetch_best_orders(hub_a.region_id, item.id)
            fb == fetch_best_orders(hub_b.region_id, item.id)
        IN  IF fa.sell = <<>> \/ fb.buy = <<>> THEN <<>>
            ELSE
            LET sell == fa.sell[1]
                buy == fb.buy[1]
                amount == BatchQuantity(sell, buy)
            IN  IF NoMargin(sell, buy) \/ Infeasible(amount) THEN <<>>
                ELSE <<Opportunity(item, hub_a, hub_b, sell, buy, amount,
                                   JumpsGet(hub_a.name, hub_b.name))>>

\* The list of one item: its hub pairs from pair k on, in enumeration order,
\* neither ranked nor truncated.
RECURSIVE BatchLoop(_, _, _)
BatchLoop(item, k, rows) ==
    IF k > Len(HubPairs) THEN rows
    ELSE BatchLoop(item, k + 1, rows \o BatchBody(HubPairs[k], item))

BatchList(item) == BatchLoop(item, 1, <<>>)

\* The batch computation is not running / is about to compute item k.
BatchIdle == [state |-> "idle", k |-> 0]

BatchAt(k) == [state |-> "running", k |-> k]

-----------------------------------------------------------------------------
(* The UI script (ui/app.py).                                              *)

\* The orders client.keys("opportunities:*") may list the keys in.
KeyOrders == { o \in [1..Cardinality(ItemIds) -> ItemIds] :
                 \A i, j \in DOMAIN o : i # j => o[i] # o[j] }

\* The loop of load_opportunities from key k of `order` on.
RECURSIVE LoadKeys(_, _, _)
LoadKeys(order, k, rows) ==
    IF k > Len(order) THEN rows
    ELSE LET data == opportunities[order[k]] IN
         IF data.kind \in {"missing", "empty"}      \* if not data: continue
         THEN LoadKeys(order, k + 1, rows)
         ELSE IF data.kind = "garbage"               \* JSONDecodeError: continue
         THEN LoadKeys(order, k + 1, rows)
         ELSE LoadKeys(order, k + 1, rows \o data.rows)   \* rows.extend

\* Mutant of load_opportunities: the list of a key replaces the rows read
\* so far instead of extending them.
load_opportunities_Replace(order) ==
    LET lists == SelectSeq(order, LAMBDA id : opportunities[id].kind = "list") IN
    IF lists = <<>> THEN <<>> ELSE opportunities[lists[Len(lists)]].rows

\* load_opportunities(): every stored list, concatenated in key order.
load_opportunities(order) == LoadKeys(order, 1, <<>>)

\* opp.get(name, 0) of a field that may be missing.
Get0(v) == IF v = -1 THEN 0 ELSE v

\* Mutant of Skipped: a row that exactly meets a constraint is left out.
Skipped_AtBoundary(opp, wallet, cargo) ==
    \/ Get0(opp.full_price) >= wallet
    \/ Get0(opp.full_volume) >= cargo

\* The two `continue` tests of the row loop.
Skipped(opp, wallet, cargo) ==
    \/ Get0(opp.full_price) > wallet
    \/ Get0(opp.full_volume) > cargo

\* jumps = profit / profit_per_jump if profit_per_jump else 0
JumpsShown(opp) ==
    IF opp.profit_per_jump.num # 0
    THEN (opp.profit * opp.profit_per_jump.den) \div opp.profit_per_jump.num
    ELSE 0

\* The row appended for an opportunity; Volume and Price are opp.get(name),
\* None (-1) when the field is missing.
Row(opp) ==
    [Item |-> opp.item_id,
     From |-> opp.from_location,
     To |-> opp.to_location,
     Volume |-> opp.full_volume,
     Quantity |-> opp.amount,
     Price |-> opp.full_price,
     Jumps |-> JumpsShown(opp),
     Profit |-> opp.profit,
     ProfitPerJump |-> opp.profit_per_jump]

\* The row loop from raw row k on.
RECURSIVE FilterRows(_, _, _, _, _)
FilterRows(raw_rows, k, rows, wallet, cargo) ==
    IF k > Len(raw_rows) THEN rows
    ELSE IF Skipped(raw_rows[k], wallet, cargo)
         THEN FilterRows(raw_rows, k + 1, rows, wallet, cargo)
         ELSE FilterRows(raw_rows, k + 1, rows \o <<Row(raw_rows[k])>>, wallet, cargo)

\* df.sort_values("Profit", ascending=False): rows by Profit, descending.
\* Rows of equal Profit are kept in their order here.
RECURSIVE SortValues(_)
SortValues(rows) ==
    IF rows = <<>> THEN <<>>
    ELSE LET best == CHOOSE i \in 1..Len(rows) :
                        /\ \A j \in 1..Len(rows) : rows[j].Profit <= rows[i].Profit
                        /\ \A j \in 1..(i - 1) : rows[j].Profit < rows[i].Profit
         IN  <<rows[best]>> \o
             SortValues(SubSeq(rows, 1, best - 1) \o SubSeq(rows, best + 1, Len(rows)))

\* The UI between two runs of the script; `cache` is what st.cache_data
\* holds for load_opportunities: <<>> or <<rows>>.
UiIdle(cache) ==
    [state |-> "idle", cache |-> cache, wallet |-> 0, cargo |-> 0,
     raw_rows |-> <<>>, table |-> <<>>]

\* The UI after a run of the script with the given inputs: load (or take
\* the cached load), filter, sort and show.
UiShown(cache, wallet, cargo, order) ==
    LET raw_rows == IF cache # <<>> THEN cache[1] ELSE load_opportunities(order) IN
    [state |-> "shown", cache |-> <<raw_rows>>, wallet |-> wallet, cargo |-> cargo,
     raw_rows |-> raw_rows,
     table |-> SortValues(FilterRows(raw_rows, 1, <<>>, wallet, cargo))]

-----------------------------------------------------------------------------
(* The price loader (price_loader/price_loader.py).                        *)

\* REGIONS: the region ids of the trade hubs, sorted, each once.
RECURSIVE SortedSeq(_)
SortedSeq(S) ==
    IF S = {} THEN <<>>
    ELSE LET least == CHOOSE x \in S : \A y \in S : x <= y
         IN  <<least>> \o SortedSeq(S \ {least})

REGIONS == SortedSeq({TRADE_HUBS[i].region_id : i \in 1..Len(TRADE_HUBS)})

\* ITEM_IDS: the ids of items.json in file order.
ITEM_IDS == [k \in 1..Len(ITEMS) |-> ITEMS[k].id]

\* The longest order list the market answers with.
MaxOrders == 7

\* A market answer of MaxOrders orders whose dearest and cheapest orders
\* come last.
LongBook ==
    [i \in 1..MaxOrders |->
        [price |-> IF i = MaxOrders THEN 90
                   ELSE IF i = MaxOrders - 1 THEN 200
                   ELSE 110 + 10 * (i % 3),
         volume_remain |-> 10 + i]]

\* A market answer of two orders, the dearer first.
ShortBook == <<OrderB, OrderA>>

\* What get_json gives fetch_best_orders: failed (any exception of the
\* request or of the decoding) or the list of orders of the answer.
EsiFailed == [failed |-> TRUE, data |-> <<>>]

EsiOrders(data) == [failed |-> FALSE, data |-> data]

\* The answers tried for a side: a failure or the long answer, and for the
\* sell side the short answer as well.
EsiResponses(order_type) ==
    IF order_type = "sell"
    THEN {EsiFailed, EsiOrders(ShortBook), EsiOrders(LongBook)}
    ELSE {EsiFailed, EsiOrders(LongBook)}

\* Mutant of InsertByPrice: the order of the buy side is not reversed.
RECURSIVE InsertByPrice_NeverReversed(_, _, _)
InsertByPrice_NeverReversed(s, o, reverse) ==
    IF s = <<>> THEN <<o>>
    ELSE IF Head(s).price <= o.price
         THEN <<Head(s)>> \o InsertByPrice_NeverReversed(Tail(s), o, reverse)
    ELSE <<o>> \o s

\* Where the stable sort puts order o among the sorted s: after the orders
\* that do not come after it (ascending, or descending when reverse).
RECURSIVE InsertByPrice(_, _, _)
InsertByPrice(s, o, reverse) ==
    IF s = <<>> THEN <<o>>
    ELSE IF (IF reverse THEN Head(s).price >= o.price ELSE Head(s).price <= o.price)
         THEN <<Head(s)>> \o InsertByPrice(Tail(s), o, reverse)
    ELSE <<o>> \o s

\* data.sort(key=lambda o: o["price"], reverse=reverse)
RECURSIVE SortByPrice(_, _)
SortByPrice(data, reverse) ==
    IF data = <<>> THEN <<>>
    ELSE InsertByPrice(SortByPrice(SubSeq(data, 1, Len(data) - 1), reverse),
                       data[Len(data)], reverse)

\* The loader's fetch_best_orders for an answer of the market: [] when the
\* request failed, else the first five orders of the sorted answer.
loader_fetch_best_orders(resp, order_type) ==
    IF resp.failed THEN <<>>
    ELSE Slice(SortByPrice(resp.data, order_type = "buy"), 5)

\* A region worker: not submitted, running process_region at item k and
\* step `at` (buy, sell, setex), or done.  buy and sell are the lists the
\* two fetches returned; resp_buy and resp_sell the answers they had.
NotSubmitted ==
    [state |-> "none", k |-> 0, at |-> "none", buy |-> <<>>, sell |-> <<>>,
     resp_buy |-> EsiFailed, resp_sell |-> EsiFailed]

WorkerAt(k, at, buy, sell, resp_buy, resp_sell) ==
    [state |-> "running", k |-> k, at |-> at, buy |-> buy, sell |-> sell,
     resp_buy |-> resp_buy, resp_sell |-> resp_sell]

WorkerDone ==
    [state |-> "done", k |-> 0, at |-> "none", buy |-> <<>>, sell |-> <<>>,
     resp_buy |-> EsiFailed, resp_sell |-> EsiFailed]

\* Mutant of WorkerAfter: the exception of a failed write is not caught
\* and ends the worker.
WorkerAfter_RaiseEnds(k, stored) ==
    IF stored /\ k < Len(ITEM_IDS)
    THEN WorkerAt(k + 1, "buy", <<>>, <<>>, EsiFailed, EsiFailed)
    ELSE WorkerDone

\* The worker after the setex of item k, stored or caught: at the next
\* item, or done after the last one.
WorkerAfter(k, stored) ==
    IF k < Len(ITEM_IDS)
    THEN WorkerAt(k + 1, "buy", <<>>, <<>>, EsiFailed, EsiFailed)
    ELSE WorkerDone

\* update_orders' own thread: not called, submitting region i, waiting for
\* the result of future i, leaving the `with` block, returned.
LoaderAt(pc, i) == [pc |-> pc, i |-> i]

\* One attempted write of the cache, as the history keeps it.
Attempt(worker, value, stored, resp_buy, resp_sell) ==
    [worker |-> worker, value |-> value, stored |-> stored,
     resp_buy |-> resp_buy, resp_sell |-> resp_sell]

-----------------------------------------------------------------------------
(* The state machine                                                       *)

Init ==
    /\ redis_client = [k \in Keys |-> Missing]
    /\ ITEMS \in {ItemTable(v) : v \in SecondVolumes}
    /\ conn = Idle
    /\ opportunities = [id \in ItemIds |-> NoOpps]
    /\ batch = BatchIdle
    /\ ui = UiIdle(<<>>)
    /\ loader = LoaderAt("idle", 0)
    /\ futures = [r \in Regions |-> NotSubmitted]
    /\ writes = [key \in Keys |-> <<>>]

\* The price loader caches a (region, item) value: redis_client.setex.
setex(key, value) ==
    /\ conn.state = "idle"
    /\ redis_client' = [redis_client EXCEPT ![key] = value]
    /\ UNCHANGED <<ITEMS, conn>>
    /\ UNCHANGED <<storeVars, loaderVars>>

\* The one hour TTL of a cached value runs out.
Expire(key) ==
    /\ conn.state = "idle"
    /\ redis_client[key] # Missing
    /\ redis_client' = [redis_client EXCEPT ![key] = Missing]
    /\ UNCHANGED <<ITEMS, conn>>
    /\ UNCHANGED <<storeVars, loaderVars>>

\* Another client of the cache leaves a value the loader never writes.
ForeignWrite(key, kind) ==
    /\ conn.state = "idle"
    /\ redis_client' = [redis_client EXCEPT ![key] = Stored(kind, <<>>, <<>>)]
    /\ UNCHANGED <<ITEMS, conn>>
    /\ UNCHANGED <<storeVars, loaderVars>>

\* The server handles one GET request.
do_GET(raw) ==
    /\ conn.state = "idle"
    /\ conn' = Served(raw)
    /\ UNCHANGED <<redis_client, ITEMS>>
    /\ UNCHANGED <<storeVars, loaderVars>>

\* The connection is closed and the server waits for the next request.
Close ==
    /\ conn.state = "done"
    /\ conn' = Idle
    /\ UNCHANGED <<redis_client, ITEMS>>
    /\ UNCHANGED <<storeVars, loaderVars>>

Next ==
    \/ \E key \in Keys, value \in Objects : setex(key, value)
    \/ \E key \in Keys : Expire(key)
    \/ \E key \in Keys, kind \in ForeignKinds : ForeignWrite(key, kind)
    \/ \E raw \in NumericRequests : do_GET(raw)
    \/ Close

Spec == Init /\ [][Next]_vars

\* The server under requests of any shape, the cache changing under the
\* keys of the first item.
NextHttp ==
    \/ \E key \in FirstItemKeys, value \in Objects : setex(key, value)
    \/ \E key \in FirstItemKeys : Expire(key)
    \/ \E key \in FirstItemKeys, kind \in ForeignKinds : ForeignWrite(key, kind)
    \/ \E raw \in AnyRequests : do_GET(raw)
    \/ Close

SpecHttp == Init /\ [][NextHttp]_vars

-----------------------------------------------------------------------------
(* The batch computation and the UI as a state machine                     *)

\* An order that sells below OrderB's bid with less volume than OrderB.
OrderD == [price |-> 120, volume_remain |-> 20]

\* The cached values the batch computation is run over.
BatchObjects ==
    { Stored("object", <<OrderA>>, <<OrderB>>),
      Stored("object", <<OrderD>>, <<OrderB>>),
      Stored("object", <<OrderC>>, <<>>) }

\* The loader caches a value while no batch computation is running and the
\* UI holds no load.
QuoteWrite(key, value) ==
    /\ batch.state = "idle"
    /\ ui = UiIdle(<<>>)
    /\ setex(key, value)

\* The batch computation is started.
batch_start ==
    /\ batch.state = "idle"
    /\ batch' = BatchAt(1)
    /\ UNCHANGED <<redis_client, ITEMS, conn, opportunities, ui, loaderVars>>

\* Item k is computed and its list is handed to the store under its key.
batch_item ==
    /\ batch.state = "running"
    /\ batch.k <= Len(ITEMS)
    /\ opportunities' =
          [opportunities EXCEPT ![ITEMS[batch.k].id] =
              StoredOpps("list", BatchList(ITEMS[batch.k]))]
    /\ batch' = BatchAt(batch.k + 1)
    /\ UNCHANGED <<redis_client, ITEMS, conn, ui, loaderVars>>

\* The last item is done: the batch computation ends.
batch_finish ==
    /\ batch.state = "running"
    /\ batch.k > Len(ITEMS)
    /\ batch' = BatchIdle
    /\ UNCHANGED <<redis_client, ITEMS, conn, opportunities, ui, loaderVars>>

\* The script runs with the given inputs; the keys are listed in `order`.
Render(wallet, cargo, order) ==
    /\ ui.state = "idle"
    /\ ui' = UiShown(ui.cache, wallet, cargo, order)
    /\ UNCHANGED <<redis_client, ITEMS, conn, opportunities, batch, loaderVars>>

\* The user changes an input: the script is about to run again.
Rerun ==
    /\ ui.state = "shown"
    /\ ui' = UiIdle(ui.cache)
    /\ UNCHANGED <<redis_client, ITEMS, conn, opportunities, batch, loaderVars>>

\* The ttl of st.cache_data runs out.
CacheExpire ==
    /\ ui.state = "idle"
    /\ ui.cache # <<>>
    /\ ui' = UiIdle(<<>>)
    /\ UNCHANGED <<redis_client, ITEMS, conn, opportunities, batch, loaderVars>>

\* The inputs of the UI while the batch computation is followed.
BatchWallet == 3000

BatchCargo == 300

InitBatch == Init /\ ITEMS = ItemTable(5)

NextBatch ==
    \/ \E key \in Keys, value \in BatchObjects : QuoteWrite(key, value)
    \/ batch_start
    \/ batch_item
    \/ batch_finish
    \/ \E order \in KeyOrders : Render(BatchWallet, BatchCargo, order)
    \/ Rerun
    \/ CacheExpire

SpecBatch == InitBatch /\ [][NextBatch]_vars

-----------------------------------------------------------------------------
(* The UI over a store that changes under it                               *)

\* Two stored opportunities: item Z from X to Y (full_price 3000,
\* full_volume 300) and item Q from X to W (full_price 2400, full_volume 100).
OppA == Opportunity(ItemTable(5)[1], TRADE_HUBS[1], TRADE_HUBS[2], OrderA, OrderB, 30, 3)

OppD == Opportunity(ItemTable(5)[2], TRADE_HUBS[1], TRADE_HUBS[3], OrderD, OrderB, 20, 0)

\* The same opportunity stored without its full_price / full_volume key.
NoPrice(opp) == [opp EXCEPT !.full_price = -1]

NoVolume(opp) == [opp EXCEPT !.full_volume = -1]

\* The values a key of the store may be given: lists of opportunities, the
\* empty string and text that is no JSON.
StoredValues ==
    { StoredOpps("list", <<>>),
      StoredOpps("list", <<OppA>>),
      StoredOpps("list", <<OppD, NoPrice(OppA)>>),
      StoredOpps("list", <<NoVolume(OppD), OppA>>),
      StoredOpps("empty", <<>>),
      StoredOpps("garbage", <<>>) }

\* The wallet and cargo inputs tried: 0 (the default) and the totals of
\* the stored opportunities.
UiWallets == {0, 2400, 3000}

UiCargos == {0, 100, 300}

\* A writer of the store sets the value of an item's key.
store_set(id, value) ==
    /\ opportunities' = [opportunities EXCEPT ![id] = value]
    /\ UNCHANGED <<redis_client, ITEMS, conn, batch, ui, loaderVars>>

\* The key of an item expires or is deleted.
store_delete(id) ==
    /\ opportunities[id] # NoOpps
    /\ opportunities' = [opportunities EXCEPT ![id] = NoOpps]
    /\ UNCHANGED <<redis_client, ITEMS, conn, batch, ui, loaderVars>>

NextUi ==
    \/ \E id \in ItemIds, value \in StoredValues : store_set(id, value)
    \/ \E id \in ItemIds : store_delete(id)
    \/ \E wallet \in UiWallets, cargo \in UiCargos, order \in KeyOrders :
          Render(wallet, cargo, order)
    \/ Rerun
    \/ CacheExpire

SpecUi == InitBatch /\ [][NextUi]_vars

-----------------------------------------------------------------------------
(* One run of update_orders as a state machine                             *)

\* update_orders is called.
update_orders ==
    /\ loader.pc = "idle"
    /\ loader' = LoaderAt("submit", 1)
    /\ UNCHANGED <<redis_client, ITEMS, conn, storeVars, futures, writes>>

\* executor.submit(process_region, region_id) for the i-th region: its
\* worker may run from now on.
submit ==
    /\ loader.pc = "submit"
    /\ futures' = [futures EXCEPT ![REGIONS[loader.i]] =
                      IF ITEM_IDS = <<>> THEN WorkerDone
                      ELSE WorkerAt(1, "buy", <<>>, <<>>, EsiFailed, EsiFailed)]
    /\ loader' = IF loader.i < Len(REGIONS) THEN LoaderAt("submit", loader.i + 1)
                 ELSE LoaderAt("result", 1)
    /\ UNCHANGED <<redis_client, ITEMS, conn, storeVars, writes>>

\* future.result() of the i-th future returns once its worker is done.
result ==
    /\ loader.pc = "result"
    /\ futures[REGIONS[loader.i]].state = "done"
    /\ loader' = IF loader.i < Len(REGIONS) THEN LoaderAt("result", loader.i + 1)
                 ELSE LoaderAt("exit", 0)
    /\ UNCHANGED <<redis_client, ITEMS, conn, storeVars, futures, writes>>

\* The `with` block is left: the executor waits for its workers, and
\* update_orders returns.
executor_exit ==
    /\ loader.pc = "exit"
    /\ \A r \in Regions : futures[r].state \in {"none", "done"}
    /\ loader' = LoaderAt("returned", 0)
    /\ UNCHANGED <<redis_client, ITEMS, conn, storeVars, futures, writes>>

\* process_region(r): buy = fetch_best_orders(region_id, item_id, "buy")
process_region_buy(r, resp) ==
    /\ futures[r].state = "running"
    /\ futures[r].at = "buy"
    /\ futures' = [futures EXCEPT ![r] =
                      WorkerAt(@.k, "sell", loader_fetch_best_orders(resp, "buy"), <<>>,
                               resp, EsiFailed)]
    /\ UNCHANGED <<redis_client, ITEMS, conn, storeVars, loader, writes>>

\* process_region(r): sell = fetch_best_orders(region_id, item_id, "sell")
process_region_sell(r, resp) ==
    /\ futures[r].state = "running"
    /\ futures[r].at = "sell"
    /\ futures' = [futures EXCEPT ![r] =
                      WorkerAt(@.k, "setex", @.buy, loader_fetch_best_orders(resp, "sell"),
                               @.resp_buy, resp)]
    /\ UNCHANGED <<redis_client, ITEMS, conn, storeVars, loader, writes>>

\* process_region(r): redis_client.setex(key, TTL_SECONDS, json.dumps(value));
\* when it raises (stored = FALSE) the exception is caught and the loop
\* goes on with the next item.
process_region_setex(r, stored) ==
    /\ futures[r].state = "running"
    /\ futures[r].at = "setex"
    /\ LET key == <<r, ITEM_IDS[futures[r].k]>>
           value == Stored("object", futures[r].sell, futures[r].buy)
       IN  /\ redis_client' = IF stored THEN [redis_client EXCEPT ![key] = value]
                              ELSE redis_client
           /\ writes' = [writes EXCEPT ![key] =
                            Append(@, Attempt(r, value, stored,
                                              futures[r].resp_buy, futures[r].resp_sell))]
    /\ futures' = [futures EXCEPT ![r] = WorkerAfter(@.k, stored)]
    /\ UNCHANGED <<ITEMS, conn, storeVars, loader>>

InitLoader == Init /\ ITEMS = ItemTable(5)

NextLoader ==
    \/ update_orders
    \/ submit
    \/ result
    \/ executor_exit
    \/ \E r \in Regions, resp \in EsiResponses("buy") : process_region_buy(r, resp)
    \/ \E r \in Regions, resp \in EsiResponses("sell") : process_region_sell(r, resp)
    \/ \E r \in Regions, stored \in BOOLEAN : process_region_setex(r, stored)

SpecLoader == InitLoader /\ [][NextLoader]_vars

\* The run with its threads scheduled: a step that can be taken is taken.
SpecLoaderFair == SpecLoader /\ WF_vars(NextLoader)

-----------------------------------------------------------------------------
(* Vocabulary of the properties                                            *)

\* A request has been served with a 200 response.
Answered == conn.state = "done" /\ conn.status = "200"

BodyIdx == 1..Len(conn.body)

HubNamed(n) == CHOOSE i \in 1..Len(TRADE_HUBS) : TRADE_HUBS[i].name = n

ItemNamed(n) == CHOOSE k \in 1..Len(ITEMS) : ITEMS[k].name = n

\* The position in the enumeration of the unit a result was computed for.
UnitOf(r) ==
    CHOOSE u \in 1..Len(Units) :
        /\ Units[u].pair = <<HubNamed(r.buy_region), HubNamed(r.sell_region)>>
        /\ Units[u].item = ItemNamed(r.item)

\* The quote of a (region, item) as the specification reads the cache: the
\* first order of the side of a stored object, and absent (<<>>) otherwise.
QuoteSell(region_id, item_id) ==
    LET v == redis_client[<<region_id, item_id>>] IN
    IF v.kind = "object" /\ v.sell # <<>> THEN <<v.sell[1]>> ELSE <<>>

QuoteBuy(region_id, item_id) ==
    LET v == redis_client[<<region_id, item_id>>] IN
    IF v.kind = "object" /\ v.buy # <<>> THEN <<v.buy[1]>> ELSE <<>>

\* Unit u is enumerated: hubs of different regions with a jump-graph entry.
Enumerated(u) ==
    LET a == TRADE_HUBS[Units[u].pair[1]]
        b == TRADE_HUBS[Units[u].pair[2]]
    IN  a.region_id # b.region_id /\ <<a.name, b.name>> \in DOMAIN JUMP_GRAPH

\* Unit u has a sell quote at its source and a dearer buy quote at its
\* destination.
Profitable(u) ==
    LET a == TRADE_HUBS[Units[u].pair[1]]
        b == TRADE_HUBS[Units[u].pair[2]]
        id == ITEMS[Units[u].item].id
        s == QuoteSell(a.region_id, id)
        d == QuoteBuy(b.region_id, id)
    IN  s # <<>> /\ d # <<>> /\ d[1].price > s[1].price

SellOf(u) == QuoteSell(TRADE_HUBS[Units[u].pair[1]].region_id, ITEMS[Units[u].item].id)[1]

BuyOf(u) == QuoteBuy(TRADE_HUBS[Units[u].pair[2]].region_id, ITEMS[Units[u].item].id)[1]

Remaining(order) == IF order.volume_remain < 0 THEN 0 ELSE order.volume_remain

MinOf(S) == CHOOSE x \in S : \A y \in S : x <= y

\* Some returned opportunity is the one of unit u, with quantity q.
Reported(u, q) ==
    \E i \in BodyIdx :
        /\ conn.body[i].buy_region = TRADE_HUBS[Units[u].pair[1]].name
        /\ conn.body[i].sell_region = TRADE_HUBS[Units[u].pair[2]].name
        /\ conn.body[i].item = ITEMS[Units[u].item].name
        /\ conn.body[i].quantity = q

\* The opportunity of unit u, quantity q and profit p, is in the response,
\* unless the top-`limit` cut left it out: the response is full and every
\* entry ranks before it (a greater profit, or the same profit and an
\* earlier unit).  Nothing is asked of a negative limit.
ReportedOrCut(u, q, p) ==
    \/ conn.args.limit < 0
    \/ Reported(u, q)
    \/ /\ Len(conn.body) = conn.args.limit
       /\ \A i \in BodyIdx :
             \/ conn.body[i].profit > p
             \/ conn.body[i].profit = p /\ UnitOf(conn.body[i]) < u

-----------------------------------------------------------------------------
(* C1: in on-demand computation an item whose unit volume is zero or       *)
(* absent has no cargo limit: with a profitable quote pair its quantity is *)
(* min(sell volume_remain, buy volume_remain, floor(wallet / buy_price)),  *)
(* and it is reported whenever that is > 0 and its profit meets            *)
(* min_profit.  The code takes the cargo term as 0 and drops the unit.     *)
C1_ZeroVolumeHasNoCargoLimit ==
    Answered =>
        \A u \in 1..Len(Units) :
            (Enumerated(u) /\ ITEMS[Units[u].item].volume <= 0 /\ Profitable(u)) =>
                LET q == MinOf({Remaining(SellOf(u)), Remaining(BuyOf(u)),
                                conn.args.wallet \div SellOf(u).price})
                    p == q * (BuyOf(u).price - SellOf(u).price)
                IN  (q > 0 /\ p >= conn.args.min_profit) => ReportedOrCut(u, q, p)

(* C2: for every limit <= 0 the returned sequence is empty, and for every  *)
(* limit >= the number of qualifying candidates all candidates are         *)
(* returned.  The code's results[:limit] keeps all but the last -limit     *)
(* candidates for a negative limit.                                        *)
C2_TopKEdgeLimits ==
    Answered =>
        LET n == Len(Candidates(conn.args.wallet, conn.args.cargo,
                                conn.args.min_profit).results)
        IN  /\ conn.args.limit <= 0 => conn.body = <<>>
            /\ conn.args.limit >= n => Len(conn.body) = n

(* C3: every returned opportunity has profit >= min_profit and the number  *)
(* returned is <= limit, for every call.  No result can have a count       *)
(* <= a negative limit, so this is the original statement.                 *)
C3_ThresholdAndCountAnyLimit ==
    Answered =>
        /\ \A i \in BodyIdx : conn.body[i].profit >= conn.args.min_profit
        /\ Len(conn.body) <= conn.args.limit

(* C3 as amended: every returned opportunity has profit >= min_profit, and *)
(* for limit >= 0 the number returned is <= limit.                         *)
C3_ThresholdAndCount ==
    Answered =>
        /\ \A i \in BodyIdx : conn.body[i].profit >= conn.args.min_profit
        /\ conn.args.limit >= 0 => Len(conn.body) <= conn.args.limit

\* A response cut to the limit while a candidate below the threshold was
\* left out.
C3_Witness ==
    /\ Answered
    /\ conn.args.limit > 0
    /\ Len(conn.body) = conn.args.limit
    /\ conn.args.min_profit > 0
    /\ Len(Candidates(conn.args.wallet, conn.args.cargo, 0).results)
          > Len(Candidates(conn.args.wallet, conn.args.cargo,
                           conn.args.min_profit).results)
    /\ Len(Candidates(conn.args.wallet, conn.args.cargo,
                      conn.args.min_profit).results) > conn.args.limit

(* C4: every opportunity returned by calculate_trades has                  *)
(* profit = expected_revenue - total_cost and quantity > 0, also when a    *)
(* quote it could have used lacks volume_remain.                           *)
C4_ProfitIdentityAndPositiveQuantity ==
    Answered =>
        \A i \in BodyIdx :
            /\ conn.body[i].profit = conn.body[i].expected_revenue - conn.body[i].total_cost
            /\ conn.body[i].quantity > 0

\* A unit with a dearer buy quote whose sell quote lacks volume_remain.
LacksVolume(u) ==
    /\ Enumerated(u)
    /\ Profitable(u)
    /\ (SellOf(u).volume_remain < 0 \/ BuyOf(u).volume_remain < 0)

\* A response with an opportunity, computed at min_profit 0 over a cache
\* where another profitable unit has a quote without volume_remain.
C4_Witness ==
    /\ Answered
    /\ conn.body # <<>>
    /\ conn.args.min_profit = 0
    /\ \E u \in 1..Len(Units) : LacksVolume(u) /\ ITEMS[Units[u].item].volume > 0

(* C5: an ordered hub pair contributes only if its regions differ and the  *)
(* jump graph has an entry for it; a pair without entry is excluded, a     *)
(* pair whose entry is 0 jumps is still enumerated.  So every returned     *)
(* opportunity names hubs of different regions joined by an entry, and    *)
(* the feasible units of a zero-jump pair are reported (up to the cut).   *)
C5_PairsEnumerated ==
    Answered =>
        /\ \A i \in BodyIdx :
              LET a == TRADE_HUBS[HubNamed(conn.body[i].buy_region)]
                  b == TRADE_HUBS[HubNamed(conn.body[i].sell_region)]
              IN  /\ a.region_id # b.region_id
                  /\ <<a.name, b.name>> \in DOMAIN JUMP_GRAPH
                  /\ conn.body[i].jumps = JUMP_GRAPH[<<a.name, b.name>>]
        /\ \A u \in 1..Len(Units) :
              LET a == TRADE_HUBS[Units[u].pair[1]]
                  b == TRADE_HUBS[Units[u].pair[2]]
                  vol == ITEMS[Units[u].item].volume
              IN  (/\ Enumerated(u)
                   /\ JUMP_GRAPH[<<a.name, b.name>>] = 0
                   /\ vol > 0
                   /\ Profitable(u)) =>
                    LET q == MinOf({Remaining(SellOf(u)), Remaining(BuyOf(u)),
                                    conn.args.wallet \div SellOf(u).price,
                                    conn.args.cargo \div vol})
                        p == q * (BuyOf(u).price - SellOf(u).price)
                    IN  (q > 0 /\ p >= conn.args.min_profit) => ReportedOrCut(u, q, p)

\* The response reports the zero-jump pair X -> W while the same quotes
\* would serve W -> X (no entry) and Y -> W (one region), which are left out.
C5_Witness ==
    /\ Answered
    /\ \E i \in BodyIdx : conn.body[i].jumps = 0
    /\ \E u \in 1..Len(Units) :
          /\ ~Enumerated(u)
          /\ TRADE_HUBS[Units[u].pair[1]].region_id # TRADE_HUBS[Units[u].pair[2]].region_id
          /\ Profitable(u)
    /\ \E u \in 1..Len(Units) :
          /\ TRADE_HUBS[Units[u].pair[1]].region_id = TRADE_HUBS[Units[u].pair[2]].region_id
          /\ Profitable(u)

-----------------------------------------------------------------------------
\* The candidates of the served call, in enumeration order.
Cand == Candidates(conn.args.wallet, conn.args.cargo, conn.args.min_profit).results

\* r1 comes before r2 in the ranking: a greater profit, or the same profit
\* and an earlier place in the enumeration (hub-pair-major, item-minor).
Before(r1, r2) ==
    \/ r1.profit > r2.profit
    \/ r1.profit = r2.profit /\ UnitOf(r1) < UnitOf(r2)

(* C6: for limit >= 0 the returned sequence is the first `limit` entries   *)
(* of the candidates sorted by profit descending, equal profits in         *)
(* enumeration order: it is ordered so, and no candidate left out ranks    *)
(* before a returned one.                                                  *)
C6_SortedTopK ==
    (Answered /\ conn.args.limit >= 0) =>
        /\ Len(conn.body) = IF conn.args.limit <= Len(Cand) THEN conn.args.limit
                                                           ELSE Len(Cand)
        /\ \A i \in BodyIdx : \E k \in 1..Len(Cand) : Cand[k] = conn.body[i]
        /\ \A i, j \in BodyIdx : i < j => Before(conn.body[i], conn.body[j])
        /\ \A k \in 1..Len(Cand) :
              (\A i \in BodyIdx : conn.body[i] # Cand[k]) =>
                  \A i \in BodyIdx : Before(conn.body[i], Cand[k])

\* A response of two entries of equal profit, cut from more candidates of
\* which an earlier one has a smaller profit than a later one.
C6_Witness ==
    /\ Answered
    /\ Len(conn.body) = 2
    /\ Len(Cand) > 2
    /\ conn.body[1].profit = conn.body[2].profit
    /\ \E i, j \in 1..Len(Cand) : i < j /\ Cand[i].profit < Cand[j].profit
    /\ \E k \in 1..Len(Cand) :
          /\ Cand[k].profit = conn.body[2].profit
          /\ \A i \in BodyIdx : conn.body[i] # Cand[k]

\* The feasible quantity of unit u for an item of positive volume.
Feasible(u, wallet, cargo) ==
    MinOf({Remaining(SellOf(u)), Remaining(BuyOf(u)),
           wallet \div SellOf(u).price,
           cargo \div ITEMS[Units[u].item].volume})

(* C7: for an item with unit_volume > 0 and sell_price > buy_price the     *)
(* reported quantity is min(sell volume_remain, buy volume_remain,         *)
(* floor(wallet / buy_price), floor(cargo / unit_volume)); a unit is       *)
(* skipped when that is <= 0 or when sell_price <= buy_price.  Scenario A  *)
(* gives quantity 30, profit 1500, profit per jump 1500 / 3.               *)
C7_FeasibleQuantity ==
    Answered =>
        /\ \A i \in BodyIdx :
              LET u == UnitOf(conn.body[i]) IN
              ITEMS[Units[u].item].volume > 0 =>
                  /\ Profitable(u)
                  /\ conn.body[i].quantity = Feasible(u, conn.args.wallet, conn.args.cargo)
                  /\ Feasible(u, conn.args.wallet, conn.args.cargo) > 0
        /\ \A u \in 1..Len(Units) :
              (Enumerated(u) /\ ITEMS[Units[u].item].volume > 0 /\ Profitable(u)) =>
                  LET q == Feasible(u, conn.args.wallet, conn.args.cargo)
                      p == q * (BuyOf(u).price - SellOf(u).price)
                  IN  (q > 0 /\ p >= conn.args.min_profit) => ReportedOrCut(u, q, p)
        /\ (/\ conn.args.limit > 0
             /\ conn.args.wallet = 10000 /\ conn.args.cargo = 1000
             /\ conn.args.min_profit <= 1500
             /\ QuoteSell(1, 34) = <<[price |-> 100, volume_remain |-> 50]>>
             /\ QuoteBuy(2, 34) = <<[price |-> 150, volume_remain |-> 30]>>) =>
                \E i \in BodyIdx :
                    /\ conn.body[i].item = "Z"
                    /\ conn.body[i].buy_region = "X" /\ conn.body[i].sell_region = "Y"
                    /\ conn.body[i].quantity = 30
                    /\ conn.body[i].profit = 1500
                    /\ conn.body[i].profit_per_jump = [num |-> 1500, den |-> 3]

\* Scenario A is answered for item Z (quantity 30, bounded by the buy side)
\* while item Q has quotes without margin on the same pair and gives nothing.
C7_Witness ==
    /\ Answered
    /\ conn.args.wallet = 10000 /\ conn.args.cargo = 1000
    /\ \E i \in BodyIdx :
          /\ conn.body[i].item = "Z"
          /\ conn.body[i].buy_region = "X" /\ conn.body[i].sell_region = "Y"
          /\ conn.body[i].quantity = 30 /\ conn.body[i].profit = 1500
    /\ ITEMS[2].volume > 0
    /\ QuoteSell(1, 35) # <<>> /\ QuoteBuy(2, 35) # <<>>
    /\ QuoteBuy(2, 35)[1].price <= QuoteSell(1, 35)[1].price
    /\ \A i \in BodyIdx : ~(conn.body[i].item = "Q" /\ conn.body[i].buy_region = "X")

\* The same (source hub, destination hub, item) opportunity.
SameUnit(r1, r2) ==
    /\ r1.item = r2.item
    /\ r1.buy_region = r2.buy_region
    /\ r1.sell_region = r2.sell_region

\* The wallet and cargo values at or above those of the served call.
Raised == { wc \in Wallets \X Cargos : wc[1] >= conn.args.wallet /\ wc[2] >= conn.args.cargo }

(* C8: with everything else fixed, raising wallet or cargo never lowers    *)
(* the quantity of an opportunity, and every opportunity in the result at  *)
(* the lower value is still in the result at the higher value.  This is    *)
(* the original statement, taken for limit > 0 only: the top-`limit` cut   *)
(* can displace an entry.                                                  *)
C8_MonotoneInResult ==
    (Answered /\ conn.args.limit > 0) =>
        \A wc \in Raised :
            LET hi == calculate_trades(wc[1], wc[2], conn.args.min_profit,
                                       conn.args.limit).results
            IN  \A i \in BodyIdx :
                    \E j \in 1..Len(hi) :
                        /\ SameUnit(hi[j], conn.body[i])
                        /\ hi[j].quantity >= conn.body[i].quantity

(* C8 as amended: raising wallet or cargo never lowers the quantity of an  *)
(* opportunity, and every opportunity in the result at the lower value is  *)
(* still a qualifying candidate at the higher value; it is in the higher   *)
(* result whenever limit >= the number of candidates there.                *)
C8_MonotoneCandidates ==
    Answered =>
        \A wc \in Raised :
            LET hic == Candidates(wc[1], wc[2], conn.args.min_profit).results
                hi == calculate_trades(wc[1], wc[2], conn.args.min_profit,
                                       conn.args.limit).results
            IN  \A i \in BodyIdx :
                    /\ \E j \in 1..Len(hic) :
                          /\ SameUnit(hic[j], conn.body[i])
                          /\ hic[j].quantity >= conn.body[i].quantity
                    /\ conn.args.limit >= Len(hic) =>
                          \E j \in 1..Len(hi) :
                              /\ SameUnit(hi[j], conn.body[i])
                              /\ hi[j].quantity >= conn.body[i].quantity

\* A returned opportunity whose quantity is strictly greater at a raised
\* wallet or cargo, where the higher call has more candidates than limit.
C8_Witness ==
    /\ Answered
    /\ \E wc \in Raised :
          LET hic == Candidates(wc[1], wc[2], conn.args.min_profit).results IN
          /\ conn.args.limit > 0
          /\ Len(hic) > conn.args.limit
          /\ \E i \in BodyIdx, j \in 1..Len(hic) :
                /\ SameUnit(hic[j], conn.body[i])
                /\ hic[j].quantity > conn.body[i].quantity

-----------------------------------------------------------------------------
\* A parameter is invalid: a wallet, cargo, min_profit or limit that is no
\* number, or a negative limit.
Invalid(raw) ==
    \/ raw.wallet.kind = "text"
    \/ raw.cargo.kind = "text"
    \/ raw.min_profit.kind = "text"
    \/ raw.limit.kind = "text"
    \/ raw.limit.kind = "int" /\ raw.limit.val < 0

\* The value a parameter is given, or its default when it is not given.
Given(raw, default) == IF raw.kind = "int" THEN raw.val ELSE default

(* C9: a request with an invalid parameter (a non-numeric wallet, cargo,   *)
(* min_profit or limit, or a negative limit) ends in a validation error,   *)
(* never in a successful response.  This is the original statement.        *)
C9_InvalidParameterRejected ==
    (conn.state = "done" /\ Invalid(conn.raw)) => conn.status # "200"

(* C9 as amended: only a non-numeric cargo ends in an error (an uncaught   *)
(* ValueError, no response).  A non-numeric wallet, min_profit or limit    *)
(* takes its default and a negative limit is passed on as given.           *)
C9_OnlyCargoRejected ==
    conn.state = "done" =>
        /\ conn.raw.cargo.kind = "text" =>
              /\ conn.status = "exception"
              /\ conn.exc = "ValueError"
              /\ conn.body = <<>>
        /\ conn.raw.cargo.kind # "text" =>
              /\ conn.exc # "ValueError"
              /\ conn.args.wallet =
                    (IF conn.raw.wallet.kind = "text" THEN DEFAULT_WALLET
                     ELSE Given(conn.raw.wallet, DEFAULT_WALLET))
              /\ conn.args.min_profit =
                    (IF conn.raw.min_profit.kind = "text" THEN DEFAULT_PROFIT
                     ELSE Given(conn.raw.min_profit, DEFAULT_PROFIT))
              /\ conn.args.limit =
                    (IF conn.raw.limit.kind = "text" THEN DEFAULT_LIMIT
                     ELSE Given(conn.raw.limit, DEFAULT_LIMIT))
              /\ conn.args.cargo = Given(conn.raw.cargo, DEFAULT_CARGO)
              /\ conn.exc = "none" => conn.status = "200"

\* A request with a non-numeric cargo has ended in the error, over a cache
\* that holds a profitable quote pair.
C9_Witness ==
    /\ conn.state = "done"
    /\ conn.raw.cargo.kind = "text"
    /\ conn.status = "exception"
    /\ \E u \in 1..Len(Units) : Enumerated(u) /\ Profitable(u)

(* C10: a missing, empty, unparseable or otherwise malformed stored value  *)
(* is an absent quote: calculate_trades never raises because of it, and no *)
(* returned opportunity reads such a key.  The code raises AttributeError  *)
(* on a stored value that is valid JSON but no object.                     *)
C10_MalformedIsAbsent ==
    (conn.state = "done" /\ conn.raw.cargo.kind # "text") =>
        /\ conn.status = "200"
        /\ \A i \in BodyIdx :
              LET u == UnitOf(conn.body[i])
                  id == ITEMS[Units[u].item].id
              IN  /\ redis_client[<<TRADE_HUBS[Units[u].pair[1]].region_id, id>>].kind = "object"
                  /\ redis_client[<<TRADE_HUBS[Units[u].pair[2]].region_id, id>>].kind = "object"

-----------------------------------------------------------------------------
\* The position in the enumeration of the unit a stored opportunity names.
UnitOfOpp(r) ==
    CHOOSE u \in 1..Len(Units) :
        /\ Units[u].pair = <<HubNamed(r.from_location), HubNamed(r.to_location)>>
        /\ ITEMS[Units[u].item].id = r.item_id

\* The quantity the order books alone allow for unit u.
Liquidity(u) == MinOf({Remaining(SellOf(u)), Remaining(BuyOf(u))})

\* The rows stored under an item's key.
StoredRows(id) == opportunities[id].rows

\* Item j has been computed by the batch computation that is running.
Completed(j) == batch.state = "running" /\ j < batch.k

\* The list stored for a completed item is the full list of that item: each
\* row is a unit of the item with a dearer buy quote, its amount is the
\* smaller remaining volume and positive, its profit is positive; every
\* such unit has its row; the rows are in enumeration order.
FullList(j) ==
    LET id == ITEMS[j].id
        rows == StoredRows(id)
    IN  /\ opportunities[id].kind = "list"
        /\ \A i \in 1..Len(rows) :
              LET u == UnitOfOpp(rows[i]) IN
              /\ rows[i].item_id = id
              /\ Enumerated(u) /\ Profitable(u)
              /\ rows[i].amount = Liquidity(u)
              /\ rows[i].amount > 0
              /\ rows[i].full_price = SellOf(u).price * rows[i].amount
              /\ rows[i].profit = (BuyOf(u).price - SellOf(u).price) * rows[i].amount
              /\ rows[i].profit > 0
        /\ \A u \in 1..Len(Units) :
              (Units[u].item = j /\ Enumerated(u) /\ Profitable(u) /\ Liquidity(u) > 0) =>
                  \E i \in 1..Len(rows) : UnitOfOpp(rows[i]) = u
        /\ \A i1, i2 \in 1..Len(rows) :
              i1 < i2 => UnitOfOpp(rows[i1]) < UnitOfOpp(rows[i2])

\* Scenario D: the quotes of scenario A give item Z the row X -> Y with
\* amount 30 = min(50, 30) and profit 1500.
ScenarioD ==
    (/\ QuoteSell(1, 34) = <<OrderA>>
     /\ QuoteBuy(2, 34) = <<OrderB>>) =>
        \E i \in 1..Len(StoredRows(34)) :
            /\ StoredRows(34)[i].from_location = "X"
            /\ StoredRows(34)[i].to_location = "Y"
            /\ StoredRows(34)[i].amount = 30
            /\ StoredRows(34)[i].profit = 1500

\* A step changes the stored value of an item only when it is the write of
\* the item the batch computation is at.
OnlyOwnKeyWritten ==
    \A id \in ItemIds :
        opportunities'[id] # opportunities[id] =>
            /\ batch.state = "running"
            /\ batch.k <= Len(ITEMS)
            /\ id = ITEMS[batch.k].id

\* A load of the UI made while the batch computation runs returns the rows
\* of every item completed so far.
ReaderSeesCompleted ==
    (/\ ui.state = "idle" /\ ui.cache = <<>>
     /\ ui'.state = "shown") =>
        \A j \in 1..Len(ITEMS) :
            Completed(j) =>
                \A i \in 1..Len(StoredRows(ITEMS[j].id)) :
                    \E n \in 1..Len(ui'.raw_rows) :
                        ui'.raw_rows[n] = StoredRows(ITEMS[j].id)[i]

(* C11: in batch mode every item's list holds each hub-pair opportunity    *)
(* with quantity min(sell volume_remain, buy volume_remain) (no wallet or  *)
(* cargo bound) and profit > 0, full, unranked and untruncated, stored     *)
(* under the item's key in place of the previous value; the write of one   *)
(* item leaves the entries of the other items unchanged, and a reader      *)
(* loading the store before the batch finishes gets the completed items.   *)
C11_BatchPersistsPerItem ==
    /\ [](\A j \in 1..Len(ITEMS) : Completed(j) => FullList(j))
    /\ []((Completed(1) /\ ITEMS[1].id = 34) => ScenarioD)
    /\ [][OnlyOwnKeyWritten]_vars
    /\ [][ReaderSeesCompleted]_vars

\* The first batch computation has stored item Z's list (scenario D) and
\* has not yet stored item Q's, and the UI shows a load that holds Z's row.
C11_Witness ==
    /\ batch = BatchAt(2)
    /\ opportunities[35] = NoOpps
    /\ ui.state = "shown"
    /\ \E n \in 1..Len(ui.raw_rows) :
          /\ ui.raw_rows[n].item_id = 34
          /\ ui.raw_rows[n].amount = 30
          /\ ui.raw_rows[n].profit = 1500

-----------------------------------------------------------------------------
\* The key's value was cached by the loader in this run.
CachedByLoader(key) ==
    /\ redis_client[key].kind = "object"
    /\ \E i \in 1..Len(writes[key]) : writes[key][i].stored

\* The last write of the key that reached the cache.
LastStored(key) ==
    LET i == CHOOSE i \in 1..Len(writes[key]) :
                /\ writes[key][i].stored
                /\ \A j \in (i + 1)..Len(writes[key]) : ~writes[key][j].stored
    IN  writes[key][i]

\* The orders the market answered with for a side (none when it failed).
FetchedOrders(resp) == IF resp.failed THEN <<>> ELSE resp.data

Ascending(orders) ==
    \A i, j \in 1..Len(orders) : i < j => orders[i].price <= orders[j].price

Descending(orders) ==
    \A i, j \in 1..Len(orders) : i < j => orders[i].price >= orders[j].price

\* `best` is absent when nothing was fetched, and else one of the fetched
\* orders with the lowest price (sign 1) or the highest price (sign -1).
Extremal(best, fetched, sign) ==
    IF fetched = <<>> THEN best = <<>>
    ELSE /\ best # <<>>
         /\ \E i \in 1..Len(fetched) : fetched[i] = best[1]
         /\ \A i \in 1..Len(fetched) : sign * best[1].price <= sign * fetched[i].price

(* C12: every value the price loader caches under orders:{region}:{item}   *)
(* holds at most five sell orders sorted by price ascending and at most    *)
(* five buy orders sorted by price descending, so the calculator's         *)
(* fetch_best_orders returns the lowest-priced sell order and the          *)
(* highest-priced buy order among all orders fetched for that key, and     *)
(* absent for a side whose list is empty.                                  *)
C12_BestOrderIsExtremal ==
    \A key \in Keys :
        CachedByLoader(key) =>
            LET v == redis_client[key]
                w == LastStored(key)
                best == fetch_best_orders(key[1], key[2])
            IN  /\ Len(v.sell) <= 5 /\ Ascending(v.sell)
                /\ Len(v.buy) <= 5 /\ Descending(v.buy)
                /\ best.exc = "none"
                /\ Extremal(best.sell, FetchedOrders(w.resp_sell), 1)
                /\ Extremal(best.buy, FetchedOrders(w.resp_buy), -1)
                /\ v.sell = <<>> => best.sell = <<>>
                /\ v.buy = <<>> => best.buy = <<>>

\* A key is cached whose two answers had more than five orders with the
\* best one after the fifth, and another key is cached with a side that
\* failed and is absent.
C12_Witness ==
    /\ \E key \in Keys :
          /\ CachedByLoader(key)
          /\ Len(FetchedOrders(LastStored(key).resp_sell)) > 5
          /\ Len(FetchedOrders(LastStored(key).resp_buy)) > 5
          /\ fetch_best_orders(key[1], key[2]).sell[1].price = 90
          /\ fetch_best_orders(key[1], key[2]).buy[1].price = 200
    /\ \E key \in Keys :
          /\ CachedByLoader(key)
          /\ LastStored(key).resp_sell.failed
          /\ fetch_best_orders(key[1], key[2]).sell = <<>>
          /\ fetch_best_orders(key[1], key[2]).buy # <<>>

-----------------------------------------------------------------------------
\* A field of a stored opportunity, a missing one counting as 0.
FieldOr0(v) == IF v < 0 THEN 0 ELSE v

\* The stored opportunity meets both constraints of the UI.
Affordable(opp) ==
    /\ FieldOr0(opp.full_price) <= ui.wallet
    /\ FieldOr0(opp.full_volume) <= ui.cargo

\* The table row shows this opportunity.
Shows(row, opp) ==
    /\ row.Item = opp.item_id
    /\ row.From = opp.from_location
    /\ row.To = opp.to_location
    /\ row.Quantity = opp.amount
    /\ row.Price = opp.full_price
    /\ row.Volume = opp.full_volume
    /\ row.Profit = opp.profit

\* The table is exactly the loaded opportunities that meet both
\* constraints: each of them is shown, no other is, no row exceeds a
\* constraint, and there are as many rows as affordable opportunities.
ExactFilter ==
    ui.state = "shown" =>
        /\ \A n \in 1..Len(ui.raw_rows) :
              Affordable(ui.raw_rows[n]) <=>
                  \E t \in 1..Len(ui.table) : Shows(ui.table[t], ui.raw_rows[n])
        /\ \A t \in 1..Len(ui.table) :
              /\ FieldOr0(ui.table[t].Price) <= ui.wallet
              /\ FieldOr0(ui.table[t].Volume) <= ui.cargo
              /\ \E n \in 1..Len(ui.raw_rows) : Shows(ui.table[t], ui.raw_rows[n])
        /\ Len(ui.table) =
              Cardinality({n \in 1..Len(ui.raw_rows) : Affordable(ui.raw_rows[n])})

\* The number of opportunities in the stored lists.
RECURSIVE StoredCount(_)
StoredCount(ids) ==
    IF ids = {} THEN 0
    ELSE LET id == CHOOSE id \in ids : TRUE
         IN  (IF opportunities[id].kind = "list" THEN Len(opportunities[id].rows) ELSE 0)
             + StoredCount(ids \ {id})

\* A load made from the store returns the stored opportunities, all of
\* them and nothing else.
LoadIsStore ==
    (ui.state = "idle" /\ ui.cache = <<>> /\ ui'.state = "shown") =>
        /\ \A id \in ItemIds :
              opportunities[id].kind = "list" =>
                  \A i \in 1..Len(opportunities[id].rows) :
                      \E n \in 1..Len(ui'.raw_rows) :
                          ui'.raw_rows[n] = opportunities[id].rows[i]
        /\ Len(ui'.raw_rows) = StoredCount(ItemIds)

(* C13: the UI applies exactly the deferred wallet / cargo filter: a       *)
(* stored opportunity is shown if and only if its full_price <= wallet and *)
(* its full_volume <= cargo, a missing field counting as 0; no shown row   *)
(* exceeds either constraint and no stored opportunity that satisfies both *)
(* is omitted.  The stored opportunities are those load_opportunities      *)
(* returned.                                                               *)
C13_ExactDeferredFilter ==
    /\ []ExactFilter
    /\ [][LoadIsStore]_vars

\* The table shows an opportunity whose full_price equals the wallet, one
\* without full_price and one without full_volume, and leaves out a loaded
\* opportunity that costs more than the wallet.
C13_Witness ==
    /\ ui.state = "shown"
    /\ ui.wallet > 0
    /\ \E t \in 1..Len(ui.table) : ui.table[t].Price = ui.wallet
    /\ \E t \in 1..Len(ui.table) : ui.table[t].Price = -1
    /\ \E t \in 1..Len(ui.table) : ui.table[t].Volume = -1
    /\ \E n \in 1..Len(ui.raw_rows) : ui.raw_rows[n].full_price > ui.wallet

-----------------------------------------------------------------------------
\* The keys a region worker is to write: its region with every item.
KeysOf(r) == {<<r, ITEM_IDS[k]>> : k \in 1..Len(ITEM_IDS)}

\* The run has returned.
Returned == loader.pc = "returned"

\* Every attempted write is by the worker of the key's own region, holds
\* an empty list for a side whose fetch failed, and no key is attempted
\* twice.
WritesInOrder ==
    \A key \in Keys :
        /\ Len(writes[key]) <= 1
        /\ \A i \in 1..Len(writes[key]) :
              LET w == writes[key][i] IN
              /\ w.worker = key[1]
              /\ w.resp_buy.failed => w.value.buy = <<>>
              /\ w.resp_sell.failed => w.value.sell = <<>>
              /\ w.stored => redis_client[key] = w.value

\* A worker that is done has attempted each of its keys, whatever failed
\* on the way.
DoneMeansAllAttempted ==
    \A r \in Regions :
        futures[r].state = "done" =>
            \A key \in KeysOf(r) : Len(writes[key]) = 1

\* update_orders has returned only if every worker is done and every
\* configured key has had its one attempt.
ReturnedMeansAllDone ==
    Returned =>
        /\ \A i \in 1..Len(REGIONS) : futures[REGIONS[i]].state = "done"
        /\ \A i \in 1..Len(REGIONS), k \in 1..Len(ITEM_IDS) :
              Len(writes[<<REGIONS[i], ITEM_IDS[k]>>]) = 1

(* C14: in one run of update_orders a failed fetch or a failed cache write *)
(* for one (region, item) never stops the run: for every configured region *)
(* and item exactly one write of orders:{region}:{item} is attempted (with *)
(* an empty list for a side whose fetch failed), no key is written by two  *)
(* different region workers, and update_orders returns only after all     *)
(* region workers have finished, under any interleaving of the workers;    *)
(* with the threads scheduled fairly the run does return.                  *)
C14_RunCompletesOnFailures ==
    /\ [](WritesInOrder /\ DoneMeansAllAttempted /\ ReturnedMeansAllDone)
    /\ <>Returned

\* The run has returned although, for the first item of a region, a fetch
\* failed and the write failed, and the next item of that region was
\* written to the cache.
C14_Witness ==
    /\ Returned
    /\ \E r \in Regions :
          /\ ~writes[<<r, ITEM_IDS[1]>>][1].stored
          /\ writes[<<r, ITEM_IDS[1]>>][1].resp_buy.failed
          /\ writes[<<r, ITEM_IDS[2]>>][1].stored
          /\ writes[<<r, ITEM_IDS[2]>>][1].resp_sell.failed
    /\ \E r \in Regions : \A key \in KeysOf(r) : writes[key][1].stored

=============================================================================
